---- MODULE Spec2Model ----
(***************************************************************************)
(* Session-based authentication middleware (package auth): login           *)
(* (Authorize / SaveUserSession), request gating (Authenticate /           *)
(* AuthenticateRequest) and Logout over a cookie-backed session store.     *)
(*                                                                         *)
(* Time is counted in whole units (one unit = one minute).  Every handler  *)
(* reads the clock once; the arrival time of a request is an input of its  *)
(* action.  The session store is the external cookie store: the cookie a   *)
(* Save issues carries the session's Values, and a later Get of a request  *)
(* that presents this cookie yields exactly these Values with IsNew false. *)
(***************************************************************************)
EXTENDS Integers, Sequences, FiniteSets, TLC

VARIABLES ah, now, jar, preLogout, last, ctor, flight, ms, rend

vars == <<ah, now, jar, preLogout, last, ctor, flight, ms, rend>>

-----------------------------------------------------------------------------
(* Bounds of the model *)

MaxTime == 2

MaxLifetime == 1
MaxOptions == 3

MaxOff == 3

Clients == {"a", "b"}

Identities == {23, 42}

-----------------------------------------------------------------------------
(* Program constants *)

defaultSessionName == "AuthSession"

userKey == 1

userTimeout == 2

DefaultLifetime == 5

StatusOK == 200

StatusSeeOther == 303
StatusFound == 302

StatusBadRequest == 400

StatusUnauthorized == 401

StatusInternalServerError == 500

MaxAgeDelete == -1

ErrBadLogin == "Bad Login"

ErrNotAuthorized == "Not Authorized"

ErrBadMethod == "method should be POST"

(* errors of the collaborators: a form that does not parse, a store that  *)
(* fails to load or save, a Verifier failure other than ErrBadLogin       *)
ErrParse == "parse error"

ErrStore == "store error"

ErrVerifier == "verifier error"

nil == "nil"

(* the nil interface{} value returned in place of an identity *)
NoUser == 0

-----------------------------------------------------------------------------
(* Session values: a map from session keys to values *)

NoValues == [k \in {} |-> nil]

Has(values, k) == k \in DOMAIN values

Put(values, k, v) == [x \in (DOMAIN values) \cup {k} |-> IF x = k THEN v ELSE values[x]]

(* a time.Time held as an interface{} value, and a value of another type *)
TimeValue(t) == [type |-> "time.Time", at |-> t]

NotATime == [type |-> "string", at |-> 0]

(* t.(time.Time): the type assertion on the stored expiry *)
IsTime(v) == v.type = "time.Time"

NoCookie == [name |-> "", Values |-> NoValues, MaxAge |-> 0]

(* store.Get(r, name): a request without the cookie yields a new, empty    *)
(* session; a request with it yields the saved Values; a failing load      *)
(* yields an error                                                         *)
StoreGet(cookie, name, fails) ==
    IF fails THEN [err |-> ErrStore, IsNew |-> TRUE, Values |-> NoValues, MaxAge |-> 0]
    ELSE IF cookie = NoCookie \/ cookie.name # name
         THEN [err |-> nil, IsNew |-> TRUE, Values |-> NoValues, MaxAge |-> 0]
         ELSE [err |-> nil, IsNew |-> FALSE, Values |-> cookie.Values, MaxAge |-> 0]

(* session.Save(r, w): the Set-Cookie carries the Values and the MaxAge    *)
SessionSave(name, values, maxAge, fails) ==
    IF fails THEN [err |-> ErrStore, cookie |-> NoCookie]
    ELSE [err |-> nil, cookie |-> [name |-> name, Values |-> values, MaxAge |-> maxAge]]

-----------------------------------------------------------------------------
(* The exchange: the response written so far and the calls made so far *)

NewExchange ==
    [status |-> 0, body |-> <<>>, location |-> "", setCookie |-> NoCookie,
     eh |-> <<>>, nah |-> 0, next |-> 0, check |-> 0, gets |-> 0, saves |-> 0]

(* http.Error(w, err.Error(), code): the text and a newline *)
HttpError(x, text, code) == [x EXCEPT !.status = code, !.body = <<text, "\n">>]

(* the default error handler *)
errorHandler(x, err, code) ==
    [HttpError(x, err, code) EXCEPT !.eh = Append(@, [err |-> err, code |-> code])]

(* a not-authorized handler that sets the status and writes no body *)
notAuthorizedHandlerNoBody(x) == [x EXCEPT !.status = StatusUnauthorized, !.nah = @ + 1]

(* the default not-authorized handler *)
notAuthorizedHandler(x) ==
    [errorHandler(x, ErrNotAuthorized, StatusUnauthorized) EXCEPT !.nah = @ + 1]

(* a redirect that answers 302 Found whatever status it is given *)
RedirectFound(x, url, code) == [x EXCEPT !.status = StatusFound, !.location = url]

(* http.Redirect(w, r, url, code) *)
Redirect(x, url, code) == [x EXCEPT !.status = code, !.location = url]

(* the protected downstream handler *)
nextServeHTTP(x) == [x EXCEPT !.status = StatusOK, !.body = <<"ok">>, !.next = @ + 1]

-----------------------------------------------------------------------------
(* Construction *)

(* the Handler after the options ran: the store, and the fields an option *)
(* may have set; zero values are unset                                     *)
SetLifetime(h, d) == [h EXCEPT !.lifetime = d]

(* the handler fields hold "" for a nil function, or the name of the one set *)
DefaultErrorHandler == "http.Error"

DefaultNotAuthorizedHandler == "errorHandler(ErrNotAuthorized, StatusUnauthorized)"

ErrNoStore == "please set a session.Store"

ZeroHandler ==
    [store |-> FALSE, lifetime |-> 0, redirLanding |-> "", redirLogout |-> "",
     sessionName |-> "", errorHandler |-> "", notAuthorizedHandler |-> ""]

(* the nil *Handler that NewHandler returns with an error *)
NilHandler == [isNil |-> TRUE]

(* a NewHandler that defaults the logout path before the landing path *)
NewHandlerLogoutFirst(o) ==
    IF ~o.store THEN [err |-> ErrNoStore, h |-> NilHandler]
    ELSE LET h1 == IF o.lifetime = 0 THEN [o EXCEPT !.lifetime = DefaultLifetime] ELSE o
             h2 == IF h1.redirLogout = "" THEN [h1 EXCEPT !.redirLogout = h1.redirLanding] ELSE h1
             h3 == IF h2.redirLanding = "" THEN [h2 EXCEPT !.redirLanding = "/"] ELSE h2
             h4 == IF h3.sessionName = "" THEN [h3 EXCEPT !.sessionName = defaultSessionName] ELSE h3
             h5 == IF h4.errorHandler = ""
                   THEN [h4 EXCEPT !.errorHandler = DefaultErrorHandler] ELSE h4
             h6 == IF h5.notAuthorizedHandler = ""
                   THEN [h5 EXCEPT !.notAuthorizedHandler = DefaultNotAuthorizedHandler] ELSE h5
         IN [err |-> nil, h |-> h6]

(* NewHandler once the options have run: o is the Handler they left *)
NewHandler(o) ==
    IF ~o.store THEN [err |-> ErrNoStore, h |-> NilHandler]
    ELSE LET h1 == IF o.lifetime = 0 THEN [o EXCEPT !.lifetime = DefaultLifetime] ELSE o
             h2 == IF h1.redirLanding = "" THEN [h1 EXCEPT !.redirLanding = "/"] ELSE h1
             h3 == IF h2.redirLogout = "" THEN [h2 EXCEPT !.redirLogout = h2.redirLanding] ELSE h2
             h4 == IF h3.sessionName = "" THEN [h3 EXCEPT !.sessionName = defaultSessionName] ELSE h3
             h5 == IF h4.errorHandler = ""
                   THEN [h4 EXCEPT !.errorHandler = DefaultErrorHandler] ELSE h4
             h6 == IF h5.notAuthorizedHandler = ""
                   THEN [h5 EXCEPT !.notAuthorizedHandler = DefaultNotAuthorizedHandler] ELSE h5
         IN [err |-> nil, h |-> h6]

(* Options.  An option is a function on the Handler under construction     *)
(* that may return an error: [kind, n, s] is the option built by kind from *)
(* the duration n or the string s (a path, a name, or a handler, "" for a  *)
(* nil one).  The handler options reject nil.                              *)
ErrNilHandler == "handler can't be nil"

HandlerOptions == {"SetErrorHandler", "SetNotAuthorizedHandler"}

OptionFails(o) == o.kind \in HandlerOptions /\ o.s = ""

(* o(&ah): the Handler it leaves and the error it returns *)
ApplyOption(o, h) ==
    IF OptionFails(o) THEN [h |-> h, err |-> ErrNilHandler]
    ELSE [err |-> nil,
          h |-> CASE o.kind = "SetStore" -> [h EXCEPT !.store = TRUE]
                  [] o.kind = "SetLifetime" -> SetLifetime(h, o.n)
                  [] o.kind = "SetLanding" -> [h EXCEPT !.redirLanding = o.s]
                  [] o.kind = "SetLogout" -> [h EXCEPT !.redirLogout = o.s]
                  [] o.kind = "SetSessionName" -> [h EXCEPT !.sessionName = o.s]
                  [] o.kind = "SetErrorHandler" -> [h EXCEPT !.errorHandler = o.s]
                  [] o.kind = "SetNotAuthorizedHandler" ->
                        [h EXCEPT !.notAuthorizedHandler = o.s]]

(* The construction in progress: the options given, how many have run, the *)
(* Handler they left, the steps taken, and what NewHandler returned.       *)
NoCtor ==
    [pc |-> "idle", given |-> <<>>, applied |-> 0, h |-> ZeroHandler,
     trace |-> <<>>, err |-> nil, res |-> NilHandler]

(* a loop that goes on to the next option when one returns an error *)
RunOptionIgnoringError(c) ==
    LET r == ApplyOption(c.given[c.applied + 1], c.h)
    IN [c EXCEPT !.applied = @ + 1, !.h = r.h, !.trace = Append(@, "option")]

(* one turn of the loop over the options *)
RunOption(c) ==
    LET r == ApplyOption(c.given[c.applied + 1], c.h)
    IN IF r.err # nil
       THEN [c EXCEPT !.pc = "returned", !.trace = Append(@, "option"),
                      !.err = r.err, !.res = NilHandler]
       ELSE [c EXCEPT !.applied = @ + 1, !.h = r.h, !.trace = Append(@, "option")]

(* the rest of NewHandler, after the loop *)
Construct(c) ==
    LET r == NewHandler(c.h)
    IN [c EXCEPT !.pc = "returned", !.err = r.err, !.res = r.h,
                 !.trace = @ \o (IF r.err # nil THEN <<"store">>
                                 ELSE <<"store", "defaults">>)]

(* lifetimes an integrator passes; 0 leaves the default *)
Lifetimes == (0 - 1) .. MaxLifetime

(* the handlers of the tests: a store, a landing path and a lifetime; one  *)
(* more has a logout path of its own                                       *)
Configured ==
    {SetLifetime([ZeroHandler EXCEPT !.store = TRUE, !.redirLanding = "/landingRedir"], d) :
        d \in Lifetimes}
    \cup {[ZeroHandler EXCEPT !.store = TRUE, !.redirLanding = "/landingRedir",
                              !.redirLogout = "/logoutRedir"]}

-----------------------------------------------------------------------------
(* The handlers, as functions of the request and the collaborators' answers *)

(* a login that keeps the moment of the login as the expiry *)
LoginExpiryNoLifetime(t) == t

(* time.Now().Add(ah.lifetime) *)
LoginExpiry(t) == t + ah.lifetime

(* a logout that stores the moment of the logout as the expiry *)
LogoutExpiryNow(t) == t

(* time.Now().Add(-ah.lifetime) *)
LogoutExpiry(t) == t - ah.lifetime

(* comparisons that differ from After: reversed, inclusive, with a grace *)
(* period of one unit                                                    *)
AfterReversed(t, tout) == t < tout

AfterOrEqual(t, tout) == t >= tout

AfterWithGrace(t, tout) == t > tout + 1

(* time.Now().After(tout) *)
After(t, tout) == t > tout

(* a SaveUserSession that keeps the identity a session already holds *)
SaveUserSessionKeepingIdentity(x, cookie, userData, t, getFails, saveFails) ==
    LET g == StoreGet(cookie, ah.sessionName, getFails)
        x1 == [x EXCEPT !.gets = @ + 1]
    IN IF g.err # nil THEN [x |-> x1, err |-> g.err]
       ELSE LET v1 == IF Has(g.Values, userKey) THEN g.Values
                      ELSE Put(g.Values, userKey, userData)
                v2 == Put(v1, userTimeout, TimeValue(LoginExpiry(t)))
                s == SessionSave(ah.sessionName, v2, g.MaxAge, saveFails)
                x2 == [x1 EXCEPT !.saves = @ + 1]
            IN IF s.err # nil THEN [x |-> x2, err |-> s.err]
               ELSE [x |-> [x2 EXCEPT !.setCookie = s.cookie], err |-> nil]

(* a SaveUserSession that answers its own failures through the error handler *)
SaveUserSessionHandling(x, cookie, userData, t, getFails, saveFails) ==
    LET g == StoreGet(cookie, ah.sessionName, getFails)
        x1 == [x EXCEPT !.gets = @ + 1]
    IN IF g.err # nil
       THEN [x |-> errorHandler(x1, g.err, StatusInternalServerError), err |-> g.err]
       ELSE LET v1 == Put(g.Values, userKey, userData)
                v2 == Put(v1, userTimeout, TimeValue(LoginExpiry(t)))
                s == SessionSave(ah.sessionName, v2, g.MaxAge, saveFails)
                x2 == [x1 EXCEPT !.saves = @ + 1]
            IN IF s.err # nil
               THEN [x |-> errorHandler(x2, s.err, StatusInternalServerError), err |-> s.err]
               ELSE [x |-> [x2 EXCEPT !.setCookie = s.cookie], err |-> nil]

SaveUserSession(x, cookie, userData, t, getFails, saveFails) ==
    LET g == StoreGet(cookie, ah.sessionName, getFails)
        x1 == [x EXCEPT !.gets = @ + 1]
    IN IF g.err # nil THEN [x |-> x1, err |-> g.err]
       ELSE LET v1 == Put(g.Values, userKey, userData)
                v2 == Put(v1, userTimeout, TimeValue(LoginExpiry(t)))
                s == SessionSave(ah.sessionName, v2, g.MaxAge, saveFails)
                x2 == [x1 EXCEPT !.saves = @ + 1]
            IN IF s.err # nil THEN [x |-> x2, err |-> s.err]
               ELSE [x |-> [x2 EXCEPT !.setCookie = s.cookie], err |-> nil]

(* a validation that parses the form before it looks at the method *)
ValidationErrorParseFirst(req) ==
    IF req.parses = "no" THEN [err |-> ErrParse, code |-> StatusInternalServerError]
    ELSE IF req.method # "POST" THEN [err |-> ErrBadMethod, code |-> StatusBadRequest]
    ELSE IF req.user = "" \/ req.pass = "" THEN [err |-> ErrBadLogin, code |-> StatusBadRequest]
    ELSE [err |-> nil, code |-> 0]

(* req: [method, parses, user, pass].  Authorize's own validation of the   *)
(* request, in the order of the code: the error and status it answers     *)
(* with, or nil                                                            *)
ValidationError(req) ==
    IF req.method # "POST" THEN [err |-> ErrBadMethod, code |-> StatusBadRequest]
    ELSE IF req.parses = "no" THEN [err |-> ErrParse, code |-> StatusInternalServerError]
    ELSE IF req.user = "" \/ req.pass = "" THEN [err |-> ErrBadLogin, code |-> StatusBadRequest]
    ELSE [err |-> nil, code |-> 0]

(* every error of Check answered as a bad request, or as an internal error *)
CheckErrorCodeAlwaysBadRequest(err) == StatusBadRequest

CheckErrorCodeAlwaysInternal(err) == StatusInternalServerError

(* the status for an error returned by Check *)
CheckErrorCode(err) ==
    IF err = ErrBadLogin THEN StatusBadRequest ELSE StatusInternalServerError

(* a login that saves the session before it looks at the error of Check *)
AuthorizeSavingFirst(x, cookie, req, chk, t, getFails, saveFails) ==
    LET v == ValidationError(req)
    IN IF v.err # nil THEN errorHandler(x, v.err, v.code)
       ELSE LET x1 == [x EXCEPT !.check = @ + 1]
                r == SaveUserSession(x1, cookie, chk.id, t, getFails, saveFails)
            IN IF chk.err # nil THEN errorHandler(r.x, chk.err, CheckErrorCode(chk.err))
               ELSE IF r.err # nil
                    THEN errorHandler(r.x, r.err, StatusInternalServerError)
                    ELSE Redirect(r.x, ah.redirLanding, StatusSeeOther)

(* chk is the Verifier's answer [id, err] to Check(user, pass) *)
Authorize(x, cookie, req, chk, t, getFails, saveFails) ==
    LET v == ValidationError(req)
    IN IF v.err # nil THEN errorHandler(x, v.err, v.code)
       ELSE LET x1 == [x EXCEPT !.check = @ + 1]
            IN IF chk.err # nil THEN errorHandler(x1, chk.err, CheckErrorCode(chk.err))
               ELSE LET r == SaveUserSession(x1, cookie, chk.id, t, getFails, saveFails)
                    IN IF r.err # nil
                       THEN errorHandler(r.x, r.err, StatusInternalServerError)
                       ELSE Redirect(r.x, ah.redirLanding, StatusSeeOther)

(* an AuthenticateRequest that answers a failing store as not authorized *)
AuthenticateRequestMaskingStoreError(x, cookie, t, getFails) ==
    LET g == StoreGet(cookie, ah.sessionName, getFails)
        x1 == [x EXCEPT !.gets = @ + 1]
        rej == [x |-> x1, user |-> NoUser, err |-> ErrNotAuthorized]
    IN IF g.err # nil \/ g.IsNew THEN rej
       ELSE IF ~Has(g.Values, userKey) THEN rej
       ELSE IF ~Has(g.Values, userTimeout) THEN rej
       ELSE IF ~IsTime(g.Values[userTimeout]) THEN rej
       ELSE IF After(t, g.Values[userTimeout].at) THEN rej
       ELSE [x |-> x1, user |-> g.Values[userKey], err |-> nil]

AuthenticateRequest(x, cookie, t, getFails) ==
    LET g == StoreGet(cookie, ah.sessionName, getFails)
        x1 == [x EXCEPT !.gets = @ + 1]
        rej == [x |-> x1, user |-> NoUser, err |-> ErrNotAuthorized]
    IN IF g.err # nil THEN [x |-> x1, user |-> NoUser, err |-> g.err]
       ELSE IF g.IsNew THEN rej
       ELSE IF ~Has(g.Values, userKey) THEN rej
       ELSE IF ~Has(g.Values, userTimeout) THEN rej
       ELSE IF ~IsTime(g.Values[userTimeout]) THEN rej
       ELSE IF After(t, g.Values[userTimeout].at) THEN rej
       ELSE [x |-> x1, user |-> g.Values[userKey], err |-> nil]

(* a gate that renews the session of every request it lets through *)
AuthenticateRefreshing(x, cookie, t, getFails) ==
    LET r == AuthenticateRequest(x, cookie, t, getFails)
    IN IF r.err # nil THEN notAuthorizedHandler(r.x)
       ELSE nextServeHTTP(SaveUserSession(r.x, cookie, r.user, t, FALSE, FALSE).x)

(* a gate that rejects on ErrNotAuthorized only *)
AuthenticateOnlyNotAuthorized(x, cookie, t, getFails) ==
    LET r == AuthenticateRequest(x, cookie, t, getFails)
    IN IF r.err = ErrNotAuthorized THEN notAuthorizedHandler(r.x) ELSE nextServeHTTP(r.x)

Authenticate(x, cookie, t, getFails) ==
    LET r == AuthenticateRequest(x, cookie, t, getFails)
    IN IF r.err # nil THEN notAuthorizedHandler(r.x) ELSE nextServeHTTP(r.x)

(* a Logout that does not return after it handled an error *)
LogoutFallThrough(x, cookie, t, getFails, saveFails) ==
    LET g == StoreGet(cookie, ah.sessionName, getFails)
        x1 == [x EXCEPT !.gets = @ + 1]
        x2 == IF g.err # nil THEN errorHandler(x1, g.err, StatusInternalServerError) ELSE x1
        v == Put(g.Values, userTimeout, TimeValue(LogoutExpiry(t)))
        s == SessionSave(ah.sessionName, v, MaxAgeDelete, saveFails)
        x3 == [x2 EXCEPT !.saves = @ + 1]
    IN IF s.err # nil
       THEN Redirect(errorHandler(x3, s.err, StatusInternalServerError),
                     ah.redirLogout, StatusSeeOther)
       ELSE Redirect([x3 EXCEPT !.setCookie = s.cookie], ah.redirLogout, StatusSeeOther)

Logout(x, cookie, t, getFails, saveFails) ==
    LET g == StoreGet(cookie, ah.sessionName, getFails)
        x1 == [x EXCEPT !.gets = @ + 1]
    IN IF g.err # nil THEN errorHandler(x1, g.err, StatusInternalServerError)
       ELSE LET v == Put(g.Values, userTimeout, TimeValue(LogoutExpiry(t)))
                s == SessionSave(ah.sessionName, v, MaxAgeDelete, saveFails)
                x2 == [x1 EXCEPT !.saves = @ + 1]
            IN IF s.err # nil THEN errorHandler(x2, s.err, StatusInternalServerError)
               ELSE Redirect([x2 EXCEPT !.setCookie = s.cookie], ah.redirLogout, StatusSeeOther)

-----------------------------------------------------------------------------
(* Requests *)

Slots == {"none", "jar", "preLogout"}

(* the cookie a request of client c presents: none, the one in its jar, or *)
(* the login cookie it held before its last Logout (kept and replayed)      *)
Presented(c, slot) ==
    CASE slot = "none" -> NoCookie
      [] slot = "jar" -> jar[c]
      [] slot = "preLogout" -> preLogout

Requests ==
    [method : {"POST", "GET"}, parses : {"yes", "no"},
     user : {"", "testUser"}, pass : {"", "testPassw"}]

CheckResults ==
    [id : Identities, err : {nil}] \cup [id : {NoUser}, err : {ErrBadLogin, ErrVerifier}]

(* the request passes Authorize's own validation, so Check is called *)
Validates(req) == ValidationError(req).err = nil

NoRequest == [method |-> "", parses |-> "", user |-> "", pass |-> ""]

NoCheck == [id |-> NoUser, err |-> nil]

(* the error the handler passed to the error handler, if any *)
Handled(x) == IF x.eh = <<>> THEN nil ELSE x.eh[1].err

Idle ==
    [op |-> "none", client |-> "", slot |-> "none", req |-> NoRequest,
     chk |-> NoCheck, gf |-> FALSE, sf |-> FALSE,
     user |-> NoUser, err |-> nil, x |-> NewExchange]

(* no Millisecs value in use, no Renderer under construction *)
NoMillisecs ==
    [src |-> "none", op |-> "none", in |-> [valid |-> TRUE, k |-> 0, off |-> 0, q |-> 0],
     secs |-> 0, t |-> [k |-> 0, sec |-> 0, nsec |-> 0], err |-> nil,
     out |-> [valid |-> TRUE, k |-> 0, off |-> 0, q |-> 0]]

(* the Renderer the options are applied to: no field set, the map of      *)
(* injectors allocated and empty; "" stands for nil                        *)
ZeroRenderer ==
    [templateFiles |-> <<>>, baseTemplates |-> <<>>, errorTemplate |-> "",
     funcMap |-> "", tplFuncInjectors |-> <<>>, log |-> "", errHandler |-> ""]

NoOption == [kind |-> "none", files |-> <<>>, name |-> "", fn |-> ""]

(* r: the Renderer; opt, err: the option applied last and what it          *)
(* returned; first: the function each injector name was first registered  *)
(* with                                                                    *)
NoRenderer == [r |-> ZeroRenderer, opt |-> NoOption, err |-> nil, first |-> <<>>]

(* the operation each client has a request in flight for, if any *)
NoFlight == [c \in Clients |-> "none"]

(* one jar for all clients: a Set-Cookie replaces the cookie of each *)
ReceiveShared(c, x) ==
    IF x.setCookie = NoCookie THEN jar ELSE [d \in Clients |-> x.setCookie]

(* the client's jar after the response: a Set-Cookie replaces the cookie *)
Receive(c, x) == IF x.setCookie = NoCookie THEN jar ELSE [jar EXCEPT ![c] = x.setCookie]

(* the arrival time of the next request *)
Arrivals == {t \in now .. now + 1 : t <= MaxTime}

Init ==
    /\ ah \in {NewHandler(o).h : o \in Configured}
    /\ now = 0
    /\ jar = [c \in Clients |-> NoCookie]
    /\ preLogout = NoCookie
    /\ last = Idle
    /\ ctor = NoCtor
    /\ flight = NoFlight
    /\ ms = NoMillisecs
    /\ rend = NoRenderer

(* Inputs a handler never reads on its path are not enumerated: the        *)
(* Verifier's answer exists only when Check is called, the cookie and the  *)
(* store's answers only when the store is asked.  last records the         *)
(* request, the Verifier's answer chk, whether the store's Get and Save    *)
(* failed (gf, sf), the value and error returned (for SaveUserSession and  *)
(* AuthenticateRequest) or handled (for Authorize and Logout), and the     *)
(* exchange.                                                               *)
DoAuthorize(c, S) ==
    \E t \in Arrivals, req \in Requests :
    \E chk \in IF Validates(req) THEN CheckResults ELSE {NoCheck} :
    \E slot \in IF Validates(req) /\ chk.err = nil THEN S ELSE {"none"} :
    \E gf \in IF Validates(req) /\ chk.err = nil THEN BOOLEAN ELSE {FALSE} :
    \E sf \in IF Validates(req) /\ chk.err = nil /\ ~gf THEN BOOLEAN ELSE {FALSE} :
        /\ now' = t
        /\ LET x == Authorize(NewExchange, Presented(c, slot), req, chk, t, gf, sf)
           IN /\ jar' = Receive(c, x)
              /\ last' = [op |-> "Authorize", client |-> c, slot |-> slot,
                          req |-> req, chk |-> chk, gf |-> gf, sf |-> sf,
                          user |-> chk.id, err |-> Handled(x), x |-> x]
        /\ UNCHANGED <<ah, preLogout, ctor, flight, ms, rend>>

DoSaveUserSession(c, S) ==
    \E t \in Arrivals, slot \in S, id \in Identities, gf \in BOOLEAN :
    \E sf \in IF gf THEN {FALSE} ELSE BOOLEAN :
        /\ now' = t
        /\ LET r == SaveUserSession(NewExchange, Presented(c, slot), id, t, gf, sf)
           IN /\ jar' = Receive(c, r.x)
              /\ last' = [op |-> "SaveUserSession", client |-> c, slot |-> slot,
                          req |-> NoRequest, chk |-> NoCheck, gf |-> gf, sf |-> sf,
                          user |-> id, err |-> r.err, x |-> r.x]
        /\ UNCHANGED <<ah, preLogout, ctor, flight, ms, rend>>

(* a request to a protected route; user and err are what the gate's call  *)
(* of AuthenticateRequest returned                                         *)
DoAuthenticate(c, S) ==
    \E t \in Arrivals, slot \in S, gf \in BOOLEAN :
        /\ now' = t
        /\ LET r == AuthenticateRequest(NewExchange, Presented(c, slot), t, gf)
               x == Authenticate(NewExchange, Presented(c, slot), t, gf)
           IN /\ jar' = Receive(c, x)
              /\ last' = [op |-> "Authenticate", client |-> c, slot |-> slot,
                          req |-> NoRequest, chk |-> NoCheck, gf |-> gf, sf |-> FALSE,
                          user |-> r.user, err |-> r.err, x |-> x]
        /\ UNCHANGED <<ah, preLogout, ctor, flight, ms, rend>>

DoLogout(c, S) ==
    \E t \in Arrivals, slot \in S, gf \in BOOLEAN :
    \E sf \in IF gf THEN {FALSE} ELSE BOOLEAN :
        /\ now' = t
        /\ LET x == Logout(NewExchange, Presented(c, slot), t, gf, sf)
           IN /\ jar' = Receive(c, x)
              /\ preLogout' = IF x.status = StatusSeeOther /\ Presented(c, slot) # NoCookie
                                   /\ Presented(c, slot).MaxAge = 0
                              THEN Presented(c, slot) ELSE preLogout
              /\ last' = [op |-> "Logout", client |-> c, slot |-> slot,
                          req |-> NoRequest, chk |-> NoCheck, gf |-> gf, sf |-> sf,
                          user |-> NoUser, err |-> Handled(x), x |-> x]
        /\ UNCHANGED <<ah, ctor, flight, ms, rend>>

(* the cookies a client sends on its own: none, or the one in its jar *)
Own == {"none", "jar"}

(* The requests of one client.  It logs in and out with its own cookie;   *)
(* it keeps the login cookie it sent with its last successful Logout and  *)
(* may present it again to a protected route.                              *)
Next ==
    \/ DoAuthorize("a", Own)
    \/ DoSaveUserSession("a", Own)
    \/ DoAuthenticate("a", Slots)
    \/ DoLogout("a", Own)

Spec == Init /\ [][Next]_vars

(* AuthenticateRequest on any session a store can hand back: each key      *)
(* present or not, the expiry a time before, at or after the clock or a    *)
(* value of another type                                                   *)
Expiries == {TimeValue(t) : t \in (0 - 1) .. (MaxTime + 1)} \cup {NotATime}

InitAR ==
    /\ ah \in {NewHandler(o).h : o \in Configured}
    /\ now \in 0 .. MaxTime
    /\ preLogout = NoCookie
    /\ last = Idle
    /\ ctor = NoCtor
    /\ flight = NoFlight
    /\ ms = NoMillisecs
    /\ rend = NoRenderer
    /\ \E i \in Identities, e \in Expiries, hasUser \in BOOLEAN, hasTimeout \in BOOLEAN :
        LET v1 == IF hasUser THEN Put(NoValues, userKey, i) ELSE NoValues
            v2 == IF hasTimeout THEN Put(v1, userTimeout, e) ELSE v1
        IN jar = [c \in Clients |->
                    IF c = "a" THEN SessionSave(ah.sessionName, v2, 0, FALSE).cookie
                    ELSE NoCookie]

NextAR == DoAuthenticate("a", Own)

SpecAR == InitAR /\ [][NextAR]_vars

(* NewHandler on any list of at most MaxOptions options *)
OptionLifetimes == {0, MaxLifetime}

Options ==
    [kind : {"SetStore"}, n : {0}, s : {""}]
    \cup [kind : {"SetLifetime"}, n : OptionLifetimes, s : {""}]
    \cup [kind : {"SetLanding"}, n : {0}, s : {"/landingRedir"}]
    \cup [kind : {"SetLogout"}, n : {0}, s : {"/logoutRedir"}]
    \cup [kind : {"SetSessionName"}, n : {0}, s : {"mySession"}]
    \cup [kind : HandlerOptions, n : {0}, s : {"", "custom"}]

OptionLists == UNION {[1 .. n -> Options] : n \in 0 .. MaxOptions}

InitNew ==
    /\ ah = ZeroHandler
    /\ now = 0
    /\ jar = [c \in Clients |-> NoCookie]
    /\ preLogout = NoCookie
    /\ last = Idle
    /\ flight = NoFlight
    /\ ms = NoMillisecs
    /\ rend = NoRenderer
    /\ \E opts \in OptionLists : ctor = [NoCtor EXCEPT !.pc = "options", !.given = opts]

DoRunOption ==
    /\ ctor.pc = "options"
    /\ ctor.applied < Len(ctor.given)
    /\ ctor' = RunOption(ctor)
    /\ UNCHANGED <<ah, now, jar, preLogout, last, flight, ms, rend>>

(* the Handler returned is the one the requests are served with *)
DoConstruct ==
    /\ ctor.pc = "options"
    /\ ctor.applied = Len(ctor.given)
    /\ ctor' = Construct(ctor)
    /\ ah' = IF ctor'.err = nil THEN ctor'.res ELSE ah
    /\ UNCHANGED <<now, jar, preLogout, last, flight, ms, rend>>

NextNew == DoRunOption \/ DoConstruct

SpecNew == InitNew /\ [][NextNew]_vars

(* Concurrent requests on one Handler.  Each client has at most one        *)
(* request in flight; a request is sent, and later served while requests   *)
(* of the other client may be sent and served in between.  The methods     *)
(* have value receivers and read the cookie of their own request, so a     *)
(* request is served in one step.  Each client logs in with its own        *)
(* credentials, which the Verifier accepts or not.                         *)
Operations == {"Authorize", "Authenticate", "AuthenticateRequest", "Logout"}

IdentityOf(c) == IF c = "a" THEN 23 ELSE 42

Login == [method |-> "POST", parses |-> "yes", user |-> "testUser", pass |-> "testPassw"]

Send(c) ==
    /\ flight[c] = "none"
    /\ \E op \in Operations : flight' = [flight EXCEPT ![c] = op]
    /\ UNCHANGED <<ah, now, jar, preLogout, last, ctor, ms, rend>>

ServeAuthorize(c) ==
    /\ flight[c] = "Authorize"
    /\ \E t \in Arrivals, chk \in {[id |-> IdentityOf(c), err |-> nil],
                                    [id |-> NoUser, err |-> ErrBadLogin]} :
        /\ now' = t
        /\ LET x == Authorize(NewExchange, jar[c], Login, chk, t, FALSE, FALSE)
           IN /\ jar' = Receive(c, x)
              /\ last' = [Idle EXCEPT !.op = "Authorize", !.client = c, !.slot = "jar",
                                      !.req = Login, !.chk = chk, !.user = chk.id,
                                      !.err = Handled(x), !.x = x]
    /\ flight' = [flight EXCEPT ![c] = "none"]
    /\ UNCHANGED <<ah, preLogout, ctor, ms, rend>>

ServeAuthenticate(c) ==
    /\ flight[c] = "Authenticate"
    /\ \E t \in Arrivals :
        /\ now' = t
        /\ LET r == AuthenticateRequest(NewExchange, jar[c], t, FALSE)
               x == Authenticate(NewExchange, jar[c], t, FALSE)
           IN /\ jar' = Receive(c, x)
              /\ last' = [Idle EXCEPT !.op = "Authenticate", !.client = c, !.slot = "jar",
                                      !.user = r.user, !.err = r.err, !.x = x]
    /\ flight' = [flight EXCEPT ![c] = "none"]
    /\ UNCHANGED <<ah, preLogout, ctor, ms, rend>>

ServeAuthenticateRequest(c) ==
    /\ flight[c] = "AuthenticateRequest"
    /\ \E t \in Arrivals :
        /\ now' = t
        /\ LET r == AuthenticateRequest(NewExchange, jar[c], t, FALSE)
           IN /\ jar' = Receive(c, r.x)
              /\ last' = [Idle EXCEPT !.op = "AuthenticateRequest", !.client = c,
                                      !.slot = "jar", !.user = r.user, !.err = r.err,
                                      !.x = r.x]
    /\ flight' = [flight EXCEPT ![c] = "none"]
    /\ UNCHANGED <<ah, preLogout, ctor, ms, rend>>

ServeLogout(c) ==
    /\ flight[c] = "Logout"
    /\ \E t \in Arrivals :
        /\ now' = t
        /\ LET x == Logout(NewExchange, jar[c], t, FALSE, FALSE)
           IN /\ jar' = Receive(c, x)
              /\ last' = [Idle EXCEPT !.op = "Logout", !.client = c, !.slot = "jar",
                                      !.err = Handled(x), !.x = x]
    /\ flight' = [flight EXCEPT ![c] = "none"]
    /\ UNCHANGED <<ah, preLogout, ctor, ms, rend>>

NextTwo ==
    \E c \in Clients :
        \/ Send(c)
        \/ ServeAuthorize(c)
        \/ ServeAuthenticate(c)
        \/ ServeAuthenticateRequest(c)
        \/ ServeLogout(c)

SpecTwo == Init /\ [][NextTwo]_vars

-----------------------------------------------------------------------------
(* Package encodedTime: Millisecs, a time read from and written as a JSON  *)
(* number of milliseconds since the Unix epoch.                            *)
(*                                                                         *)
(* UnmarshalJSON decodes the number into a float64 and converts it to      *)
(* int64.  A float64 has a 53 bit significand, so the numbers are taken    *)
(* around two points: around 0, where every integer and every quarter is   *)
(* a float64, and around 2^53, where the float64 values are the integers   *)
(* below 2^53 and the even integers from 2^53 on.  A number is written     *)
(* [k, off, q] for k * 2^53 + off + q/4 with k in {0, 1}, an integer       *)
(* [k, off] for k * 2^53 + off, a float64 [k, n4] for k * 2^53 + n4/4.     *)
(* 2^53 = 9007199254740992 milliseconds are 9007199254740 seconds and      *)
(* 992 milliseconds; a time is written [k, sec, nsec] for                  *)
(* k * 9007199254740 + sec seconds and nsec nanoseconds.                   *)
Quarters == 4

BaseMillis == 992

MilliPerSec == 1000

NanoPerMilli == 1000000

NanoPerSec == 1000000000

(* the JSON texts: numbers, and one text that is not a number *)
Texts ==
    [valid : {TRUE}, k : {0, 1}, off : (0 - MaxOff) .. MaxOff, q : 0 .. (Quarters - 1)]
    \cup {[valid |-> FALSE, k |-> 0, off |-> 0, q |-> 0]}

(* x rounded to the nearest multiple of u, a tie to the multiple of 2u *)
RoundToEven(x, u) ==
    LET lo == u * (x \div u)
        r == x - lo
    IN IF 2 * r < u THEN lo
       ELSE IF 2 * r > u THEN lo + u
       ELSE IF lo % (2 * u) = 0 THEN lo ELSE lo + u

(* a decoding that keeps every number exactly *)
ParseFloat64Exact(txt) == [k |-> txt.k, n4 |-> Quarters * txt.off + txt.q]

(* json.Unmarshal(in, &milliseconds): the float64 nearest to the number *)
ParseFloat64(txt) ==
    LET x4 == Quarters * txt.off + txt.q
    IN IF txt.k = 0 THEN [k |-> 0, n4 |-> x4]
       ELSE IF x4 < 0 THEN [k |-> 1, n4 |-> RoundToEven(x4, Quarters)]
       ELSE [k |-> 1, n4 |-> RoundToEven(x4, 2 * Quarters)]

(* a conversion that rounds down *)
ToInt64Floor(f) == [k |-> f.k, off |-> f.n4 \div Quarters]

(* int64(milliseconds): the fraction is dropped, towards zero *)
ToInt64(f) ==
    [k |-> f.k,
     off |-> IF f.k = 0 /\ f.n4 < 0 THEN 0 - ((0 - f.n4) \div Quarters)
             ELSE f.n4 \div Quarters]

(* Go's / and % on integers: the quotient is truncated towards zero *)
Quo(a, b) == IF a >= 0 THEN a \div b ELSE 0 - ((0 - a) \div b)

Rem(a, b) == a - b * Quo(a, b)

(* time.Unix(sec, nsec) of k * 9007199254740 + sec seconds: the nanoseconds *)
(* are brought into [0, 1e9)                                                *)
TimeUnix(k, sec, nsec) ==
    IF nsec < 0 THEN [k |-> k, sec |-> sec - 1, nsec |-> nsec + NanoPerSec]
    ELSE [k |-> k, sec |-> sec, nsec |-> nsec]

(* time.UnixMilli(msec) == Unix(msec / 1e3, (msec % 1e3) * 1e6) *)
UnixMilli(i) ==
    LET m == i.k * BaseMillis + i.off
    IN TimeUnix(i.k, Quo(m, MilliPerSec), Rem(m, MilliPerSec) * NanoPerMilli)

(* t.UnixMilli() == t.unixSec() * 1e3 + t.nsec() / 1e6 *)
TimeUnixMilli(t) ==
    [k |-> t.k, off |-> t.sec * MilliPerSec + t.nsec \div NanoPerMilli - t.k * BaseMillis]

(* strconv.FormatInt(milliseconds, 10) *)
FormatInt(i) == [valid |-> TRUE, k |-> i.k, off |-> i.off, q |-> 0]

ErrSyntax == "json: invalid number"

NewMillisecs(secs) == TimeUnix(0, secs, 0)

(* Millisecs.UnmarshalJSON(in): the value it leaves in t, and the error *)
UnmarshalJSON(t, in) ==
    IF ~in.valid THEN [t |-> t, err |-> ErrSyntax]
    ELSE [t |-> UnixMilli(ToInt64(ParseFloat64(in))), err |-> nil]

(* Millisecs.MarshalJSON() *)
MarshalJSON(t) == FormatInt(TimeUnixMilli(t))

InitMillisecs ==
    /\ ah = ZeroHandler
    /\ now = 0
    /\ jar = [c \in Clients |-> NoCookie]
    /\ preLogout = NoCookie
    /\ last = Idle
    /\ ctor = NoCtor
    /\ flight = NoFlight
    /\ ms = NoMillisecs
    /\ rend = NoRenderer

DoNewMillisecs ==
    /\ \E secs \in (0 - MaxOff) .. MaxOff :
          ms' = [NoMillisecs EXCEPT !.src = "secs", !.op = "NewMillisecs",
                                    !.secs = secs, !.t = NewMillisecs(secs)]
    /\ UNCHANGED <<ah, now, jar, preLogout, last, ctor, flight, rend>>

DoUnmarshalJSON ==
    /\ \E in \in Texts :
          LET r == UnmarshalJSON(ms.t, in)
          IN ms' = [ms EXCEPT !.src = IF r.err = nil THEN "json" ELSE @,
                              !.op = "UnmarshalJSON",
                              !.in = IF r.err = nil THEN in ELSE @,
                              !.t = r.t, !.err = r.err]
    /\ UNCHANGED <<ah, now, jar, preLogout, last, ctor, flight, rend>>

DoMarshalJSON ==
    /\ ms.op # "MarshalJSON"
    /\ ms' = [ms EXCEPT !.op = "MarshalJSON", !.err = nil, !.out = MarshalJSON(ms.t)]
    /\ UNCHANGED <<ah, now, jar, preLogout, last, ctor, flight, rend>>

NextMillisecs == DoNewMillisecs \/ DoUnmarshalJSON \/ DoMarshalJSON

SpecMillisecs == InitMillisecs /\ [][NextMillisecs]_vars

-----------------------------------------------------------------------------
(* Package render: the options of a Renderer.  Each option is a function   *)
(* on the Renderer that returns an error; it is given here as the Renderer *)
(* it leaves and the error.                                                *)
ErrNoTemplates == "render: no templates passed"

ErrNameTaken == "injection name already taken"

ErrNilLogger == "render: nil logger passed"

ErrNilErrorHandler == "render: nil ErrorHandlerFunc passed"

AddTemplates(r, files) ==
    IF Len(files) = 0 THEN [r |-> r, err |-> ErrNoTemplates]
    ELSE [r |-> [r EXCEPT !.templateFiles = files], err |-> nil]

BaseTemplates(r, bases) == [r |-> [r EXCEPT !.baseTemplates = bases], err |-> nil]

ErrorTemplate(r, name) == [r |-> [r EXCEPT !.errorTemplate = name], err |-> nil]

FuncMap(r, m) == [r |-> [r EXCEPT !.funcMap = m], err |-> nil]

(* an injection that replaces the function registered under the name *)
InjectTemplateFuncOverwriting(r, name, fn) ==
    [r |-> [r EXCEPT !.tplFuncInjectors = (name :> fn) @@ @], err |-> nil]

InjectTemplateFunc(r, name, fn) ==
    IF name \in DOMAIN r.tplFuncInjectors THEN [r |-> r, err |-> ErrNameTaken]
    ELSE [r |-> [r EXCEPT !.tplFuncInjectors = (name :> fn) @@ @], err |-> nil]

SetLogger(r, l) ==
    IF l = "" THEN [r |-> r, err |-> ErrNilLogger]
    ELSE [r |-> [r EXCEPT !.log = l], err |-> nil]

SetErrorHandler(r, fn) ==
    IF fn = "" THEN [r |-> r, err |-> ErrNilErrorHandler]
    ELSE [r |-> [r EXCEPT !.errHandler = fn], err |-> nil]

(* the options a caller builds: [kind, files, name, fn] *)
RenderOptions ==
    [kind : {"AddTemplates"}, files : {<<>>, <<"a.tmpl">>, <<"b.tmpl">>},
     name : {""}, fn : {""}]
    \cup [kind : {"BaseTemplates"}, files : {<<"base.tmpl">>}, name : {""}, fn : {""}]
    \cup [kind : {"ErrorTemplate"}, files : {<<>>}, name : {"error.tmpl"}, fn : {""}]
    \cup [kind : {"FuncMap"}, files : {<<>>}, name : {""}, fn : {"itoa"}]
    \cup [kind : {"InjectTemplateFunc"}, files : {<<>>}, name : {"addr", "user"},
          fn : {"f1", "f2"}]
    \cup [kind : {"SetLogger", "SetErrorHandler"}, files : {<<>>}, name : {""},
          fn : {"", "g1", "g2"}]

(* o(r) *)
ApplyRenderOption(o, r) ==
    CASE o.kind = "AddTemplates" -> AddTemplates(r, o.files)
      [] o.kind = "BaseTemplates" -> BaseTemplates(r, o.files)
      [] o.kind = "ErrorTemplate" -> ErrorTemplate(r, o.name)
      [] o.kind = "FuncMap" -> FuncMap(r, o.fn)
      [] o.kind = "InjectTemplateFunc" -> InjectTemplateFunc(r, o.name, o.fn)
      [] o.kind = "SetLogger" -> SetLogger(r, o.fn)
      [] o.kind = "SetErrorHandler" -> SetErrorHandler(r, o.fn)

InitRender ==
    /\ ah = ZeroHandler
    /\ now = 0
    /\ jar = [c \in Clients |-> NoCookie]
    /\ preLogout = NoCookie
    /\ last = Idle
    /\ ctor = NoCtor
    /\ flight = NoFlight
    /\ ms = NoMillisecs
    /\ rend = NoRenderer

DoOption(kind) ==
    /\ \E o \in {p \in RenderOptions : p.kind = kind} :
          LET a == ApplyRenderOption(o, rend.r)
          IN rend' = [r |-> a.r, opt |-> o, err |-> a.err,
                      first |-> IF a.err = nil /\ o.kind = "InjectTemplateFunc"
                                   /\ o.name \notin DOMAIN rend.first
                                THEN (o.name :> o.fn) @@ rend.first
                                ELSE rend.first]
    /\ UNCHANGED <<ah, now, jar, preLogout, last, ctor, flight, ms>>

NextRender ==
    \/ DoOption("AddTemplates")
    \/ DoOption("BaseTemplates")
    \/ DoOption("ErrorTemplate")
    \/ DoOption("FuncMap")
    \/ DoOption("InjectTemplateFunc")
    \/ DoOption("SetLogger")
    \/ DoOption("SetErrorHandler")

SpecRender == InitRender /\ [][NextRender]_vars

-----------------------------------------------------------------------------
(* Vocabulary of the properties *)

(* the cookie the last request presented; an Authenticate request leaves  *)
(* the jar and the kept cookie as they were                                *)
Shown == Presented(last.client, last.slot)

(* a cookie that holds an identity and an expiry *)
HoldsIdentity(k) ==
    /\ k # NoCookie
    /\ Has(k.Values, userKey)
    /\ Has(k.Values, userTimeout)
    /\ IsTime(k.Values[userTimeout])

(* the expiry such a cookie holds *)
Expiry(k) == k.Values[userTimeout].at

(* a cookie as a login issues it, a cookie as a Logout issues it *)
IsLoginCookie(k) == HoldsIdentity(k) /\ k.MaxAge = 0

IsLogoutCookie(k) == k # NoCookie /\ k.MaxAge = MaxAgeDelete

(* the last request went to a protected route and the store loaded its session *)
Gated == last.op = "Authenticate" /\ ~last.gf

NotAuthorizedBody == <<ErrNotAuthorized, "\n">>

-----------------------------------------------------------------------------
-----------------------------------------------------------------------------
(* C2: a successful Authorize stores the identity the Verifier returned    *)
(* and the expiry now + lifetime in the cookie it issues, and a later      *)
(* protected request of the client carrying that cookie before the expiry  *)
(* gets exactly that identity with a nil error from AuthenticateRequest    *)
(* and is let through to the downstream handler with status 200.           *)
C2_LoginThenAuthenticated ==
    /\ (last.op = "Authorize" /\ last.x.status = StatusSeeOther)
        => /\ last.user \in Identities
           /\ jar[last.client].name = ah.sessionName
           /\ DOMAIN jar[last.client].Values = {userKey, userTimeout}
           /\ jar[last.client].Values[userKey] = last.user
           /\ jar[last.client].Values[userTimeout] = TimeValue(now + ah.lifetime)
    /\ (Gated /\ last.slot = "jar" /\ IsLoginCookie(Shown)
          /\ now < Expiry(Shown))
        => /\ last.err = nil
           /\ last.user = Shown.Values[userKey]
           /\ last.x.status = StatusOK
           /\ last.x.next = 1

C2_Witness ==
    /\ Gated /\ last.slot = "jar" /\ IsLoginCookie(Shown)
    /\ now < Expiry(Shown)
    /\ now > Expiry(Shown) - ah.lifetime
    /\ last.err = nil
    /\ last.user = 23
    /\ last.x.status = StatusOK

-----------------------------------------------------------------------------
(* C3 as stated: when the store load succeeds, AuthenticateRequest returns *)
(* (identity, nil) iff the session is not new, holds the identity key and  *)
(* the expiry key, the expiry is a timestamp and now < expiry; otherwise,  *)
(* also at now = expiry, it returns (nil, ErrNotAuthorized).               *)
C3_AuthenticatedIffBeforeExpiry ==
    Gated =>
        IF HoldsIdentity(Shown) /\ now < Expiry(Shown)
        THEN last.err = nil /\ last.user = Shown.Values[userKey]
        ELSE last.err = ErrNotAuthorized /\ last.user = NoUser

(* C3 as amended: when the store load succeeds, AuthenticateRequest        *)
(* returns (identity, nil) iff the session is not new, holds the identity  *)
(* key and the expiry key, the expiry is a timestamp and now <= expiry;    *)
(* it returns (nil, ErrNotAuthorized) otherwise, so at now = expiry the    *)
(* session still authenticates.                                            *)
C3_AuthenticatedIffNotAfterExpiry ==
    Gated =>
        IF HoldsIdentity(Shown) /\ now <= Expiry(Shown)
        THEN last.err = nil /\ last.user = Shown.Values[userKey]
        ELSE last.err = ErrNotAuthorized /\ last.user = NoUser

C3_Witness ==
    /\ Gated /\ HoldsIdentity(Shown)
    /\ now = Expiry(Shown)
    /\ last.err = nil
    /\ last.user = Shown.Values[userKey]

-----------------------------------------------------------------------------
(* C4: the cookie a successful Logout issues never authenticates: a later  *)
(* protected request presenting it gets ErrNotAuthorized from              *)
(* AuthenticateRequest and status 401 with the not-authorized error text   *)
(* as the body, for every lifetime the Handler is configured with.         *)
C4_LogoutCookieNeverAuthenticates ==
    (Gated /\ last.slot = "jar" /\ IsLogoutCookie(Shown))
        => /\ last.err = ErrNotAuthorized
           /\ last.x.status = StatusUnauthorized
           /\ last.x.body = NotAuthorizedBody

-----------------------------------------------------------------------------
(* C5: a login stores the expiry now + lifetime, and a protected request   *)
(* presenting a cookie that still holds identity and expiry at a time      *)
(* after that expiry gets ErrNotAuthorized from AuthenticateRequest and    *)
(* is not let through.                                                     *)
C5_ExpiredSessionRejected ==
    /\ (last.op \in {"Authorize", "SaveUserSession"} /\ last.x.setCookie # NoCookie)
        => Expiry(last.x.setCookie) = now + ah.lifetime
    /\ (Gated /\ HoldsIdentity(Shown) /\ now > Expiry(Shown))
        => /\ last.err = ErrNotAuthorized
           /\ last.user = NoUser
           /\ last.x.status = StatusUnauthorized
           /\ last.x.next = 0

C5_Witness ==
    /\ Gated /\ last.slot = "jar" /\ IsLoginCookie(Shown)
    /\ ah.lifetime > 0
    /\ now > Expiry(Shown)
    /\ Shown.Values[userKey] \in Identities
    /\ last.err = ErrNotAuthorized

-----------------------------------------------------------------------------
(* C6: a protected request that carries no session cookie (the store       *)
(* yields a new session) gets ErrNotAuthorized from AuthenticateRequest,   *)
(* and the gate answers 401 with a non-empty body and does not call the    *)
(* downstream handler.                                                     *)
C6_NoSessionRejected ==
    (Gated /\ last.slot = "none")
        => /\ last.err = ErrNotAuthorized
           /\ last.user = NoUser
           /\ last.x.status = StatusUnauthorized
           /\ last.x.body # <<>>
           /\ last.x.next = 0

C6_Witness ==
    /\ Gated /\ last.slot = "none"
    /\ IsLoginCookie(jar[last.client])
    /\ now < Expiry(jar[last.client])
    /\ last.x.status = StatusUnauthorized
    /\ last.x.body = NotAuthorizedBody

-----------------------------------------------------------------------------
(* C7: a protected request never saves: it calls no Save, sets no cookie   *)
(* and leaves the client's cookies, and so the stored expiry, as they      *)
(* were; two successive authenticated requests with the same cookie get    *)
(* the same identity.                                                      *)
C7_NoSlidingExpiry ==
    [][last'.op = "Authenticate"
        => /\ jar' = jar
           /\ preLogout' = preLogout
           /\ last'.x.saves = 0
           /\ last'.x.setCookie = NoCookie
           /\ (last.op = "Authenticate" /\ last.slot = last'.slot
                 /\ last.err = nil /\ last'.err = nil)
                => last'.user = last.user]_vars

C7_Witness ==
    /\ Gated /\ last.slot = "jar" /\ IsLoginCookie(Shown)
    /\ ah.lifetime > 1
    /\ now > Expiry(Shown) - ah.lifetime
    /\ now < Expiry(Shown)
    /\ last.err = nil
    /\ last.x.saves = 0

-----------------------------------------------------------------------------
(* C8: the gate calls the downstream handler exactly when                  *)
(* AuthenticateRequest returned a nil error; on any error it calls the     *)
(* not-authorized handler once and never downstream, and the default       *)
(* not-authorized handler passes ErrNotAuthorized and 401 to the error     *)
(* handler.                                                                *)
C8_GateCallsDownstreamIffNoError ==
    last.op = "Authenticate"
        => /\ last.x.next = 1 <=> last.err = nil
           /\ last.x.next \in {0, 1}
           /\ last.err = nil
                => last.x.nah = 0 /\ last.x.eh = <<>> /\ last.x.status = StatusOK
           /\ last.err # nil
                => /\ last.x.nah = 1
                   /\ last.x.next = 0
                   /\ last.x.eh = <<[err |-> ErrNotAuthorized, code |-> StatusUnauthorized]>>
                   /\ last.x.status = StatusUnauthorized

C8_Witness ==
    /\ last.op = "Authenticate"
    /\ last.err = ErrStore
    /\ last.x.nah = 1
    /\ last.x.next = 0

-----------------------------------------------------------------------------
(* C9 as stated: in Authorize, Logout and the gate a store failure or a    *)
(* Verifier failure other than ErrBadLogin reaches the error handler with  *)
(* that error and status 500; so does a store load failure while gating a  *)
(* protected request.                                                      *)
C9_FailuresGive500 ==
    (last.op \in {"Authorize", "Logout", "Authenticate"}
       /\ (last.gf \/ last.sf \/ last.chk.err = ErrVerifier))
        => /\ last.x.status = StatusInternalServerError
           /\ last.x.eh = <<[err |-> IF last.gf \/ last.sf THEN ErrStore ELSE ErrVerifier,
                             code |-> StatusInternalServerError]>>

(* C9 as amended: in Authorize and Logout a store failure or a Verifier    *)
(* failure other than ErrBadLogin reaches the error handler with that      *)
(* error and status 500, and ErrBadLogin from Check with status 400; in    *)
(* the gate a store load failure goes, like every other error of           *)
(* AuthenticateRequest, to the not-authorized handler, which by default    *)
(* answers 401 with ErrNotAuthorized.                                      *)
C9_FailuresSurfaced ==
    /\ (last.op \in {"Authorize", "Logout"}
          /\ (last.gf \/ last.sf \/ last.chk.err = ErrVerifier))
        => /\ last.x.status = StatusInternalServerError
           /\ last.x.eh = <<[err |-> IF last.gf \/ last.sf THEN ErrStore ELSE ErrVerifier,
                             code |-> StatusInternalServerError]>>
           /\ last.x.location = ""
    /\ (last.op = "Authorize" /\ last.chk.err = ErrBadLogin)
        => /\ last.x.status = StatusBadRequest
           /\ last.x.eh = <<[err |-> ErrBadLogin, code |-> StatusBadRequest]>>
    /\ (last.op = "Authenticate" /\ last.gf)
        => /\ last.err = ErrStore
           /\ last.x.status = StatusUnauthorized
           /\ last.x.nah = 1
           /\ last.x.eh = <<[err |-> ErrNotAuthorized, code |-> StatusUnauthorized]>>

C9_Witness ==
    /\ last.op = "Authenticate" /\ last.gf
    /\ last.slot = "jar" /\ IsLoginCookie(Shown) /\ now < Expiry(Shown)
    /\ last.x.status = StatusUnauthorized
    /\ last.x.body = NotAuthorizedBody

-----------------------------------------------------------------------------
(* C10: Authorize validates method, then form, then fields: a request      *)
(* that is not a POST gets 400 whatever its form, a POST whose form does   *)
(* not parse gets 500, a POST with an empty user or pass gets ErrBadLogin  *)
(* and 400; in all three cases Check is not called and the store is        *)
(* neither read nor written.                                               *)
C10_ValidationBeforeVerifier ==
    last.op = "Authorize"
        => LET untouched ==
                 /\ last.x.check = 0 /\ last.x.gets = 0 /\ last.x.saves = 0
                 /\ last.x.setCookie = NoCookie /\ last.x.location = ""
           IN /\ last.req.method # "POST"
                   => /\ last.x.status = StatusBadRequest
                      /\ last.x.eh = <<[err |-> ErrBadMethod, code |-> StatusBadRequest]>>
                      /\ untouched
              /\ (last.req.method = "POST" /\ last.req.parses = "no")
                   => /\ last.x.status = StatusInternalServerError
                      /\ last.x.eh = <<[err |-> ErrParse, code |-> StatusInternalServerError]>>
                      /\ untouched
              /\ (last.req.method = "POST" /\ last.req.parses = "yes"
                    /\ (last.req.user = "" \/ last.req.pass = ""))
                   => /\ last.x.status = StatusBadRequest
                      /\ last.x.eh = <<[err |-> ErrBadLogin, code |-> StatusBadRequest]>>
                      /\ untouched

C10_Witness ==
    /\ last.op = "Authorize"
    /\ last.req.method = "GET" /\ last.req.parses = "no"
    /\ last.x.status = StatusBadRequest
    /\ last.x.check = 0

-----------------------------------------------------------------------------
(* C11: when Check returns an error, Authorize passes that error to the    *)
(* error handler, with status 400 if it is ErrBadLogin and 500 for any     *)
(* other error, and sends no redirect.                                     *)
C11_CheckErrorStatus ==
    (last.op = "Authorize" /\ last.chk.err # nil)
        => /\ last.x.check = 1
           /\ last.x.eh = <<[err |-> last.chk.err,
                             code |-> IF last.chk.err = ErrBadLogin
                                      THEN StatusBadRequest
                                      ELSE StatusInternalServerError]>>
           /\ last.x.status = last.x.eh[1].code
           /\ last.x.body = <<last.chk.err, "\n">>
           /\ last.x.location = ""
           /\ last.x.status # StatusSeeOther

C11_Witness ==
    /\ last.op = "Authorize"
    /\ last.chk.err = ErrBadLogin
    /\ last.x.status = StatusBadRequest
    /\ last.x.body = <<ErrBadLogin, "\n">>

-----------------------------------------------------------------------------
(* C12: Authorize sets a response cookie on success only.  When the        *)
(* request fails Authorize's validation (bad method, parse error, empty    *)
(* field) or Check returns an error, the store is not asked, Save is not   *)
(* called and no value is written; on every outcome other than the         *)
(* redirect no Set-Cookie is sent, and the client's cookies, hence what    *)
(* AuthenticateRequest answers for them at any given time, are as before.  *)
C12_Rejected == ~Validates(last'.req) \/ last'.chk.err # nil

C12_CookieOnSuccessOnlyStep ==
    last'.op = "Authorize" =>
        /\ C12_Rejected =>
              /\ last'.x.gets = 0
              /\ last'.x.saves = 0
        /\ last'.x.status # StatusSeeOther =>
              /\ last'.x.setCookie = NoCookie
              /\ jar' = jar
              /\ preLogout' = preLogout
              /\ \A c \in Clients, t \in 0 .. MaxTime :
                    AuthenticateRequest(NewExchange, jar'[c], t, FALSE)
                        = AuthenticateRequest(NewExchange, jar[c], t, FALSE)
        /\ last'.x.status = StatusSeeOther =>
              /\ ~C12_Rejected
              /\ last'.x.setCookie # NoCookie
              /\ jar'[last'.client] = last'.x.setCookie

C12_CookieOnSuccessOnly == [][C12_CookieOnSuccessOnlyStep]_vars

(* a logged-in client whose next login is refused by the Verifier *)
C12_Witness ==
    /\ last.op = "Authorize"
    /\ last.chk.err = ErrVerifier
    /\ IsLoginCookie(jar[last.client])
    /\ now <= Expiry(jar[last.client])

-----------------------------------------------------------------------------
-----------------------------------------------------------------------------
(* C14: Logout loads the session, stores now - lifetime under the expiry   *)
(* key, sets the cookie's max-age to -1 and calls Save.  On success it     *)
(* answers 303 to the logout path with a Set-Cookie that differs from the  *)
(* login cookie the request presented; if loading the session or Save fails it   *)
(* answers 500 through the error handler, without redirect or cookie.      *)
C14_LogoutStep ==
    last'.op = "Logout" =>
        LET sent == Presented(last'.client, last'.slot)
            x == last'.x
        IN IF ~last'.gf /\ ~last'.sf
           THEN /\ x.gets = 1
                /\ x.saves = 1
                /\ x.status = StatusSeeOther
                /\ x.location = ah.redirLogout
                /\ x.eh = <<>>
                /\ x.setCookie.name = ah.sessionName
                /\ x.setCookie.MaxAge = MaxAgeDelete
                /\ Has(x.setCookie.Values, userTimeout)
                /\ x.setCookie.Values[userTimeout] = TimeValue(now' - ah.lifetime)
                /\ IsLoginCookie(sent) => x.setCookie # sent
                /\ jar'[last'.client] = x.setCookie
           ELSE /\ x.status = StatusInternalServerError
                /\ x.eh = <<[err |-> ErrStore, code |-> StatusInternalServerError]>>
                /\ x.location = ""
                /\ x.setCookie = NoCookie
                /\ x.saves = (IF last'.gf THEN 0 ELSE 1)
                /\ jar' = jar

C14_LogoutSetsExpiredCookie == [][C14_LogoutStep]_vars

(* a Logout of a logged-in client, redirected to the logout path *)
C14_Witness ==
    /\ last.op = "Logout"
    /\ last.x.status = StatusSeeOther
    /\ last.x.location = "/logoutRedir"
    /\ preLogout # NoCookie
    /\ IsLoginCookie(preLogout)
    /\ IsLogoutCookie(jar[last.client])
    /\ jar[last.client].Values[userKey] = preLogout.Values[userKey]
    /\ Expiry(jar[last.client]) < Expiry(preLogout)

-----------------------------------------------------------------------------
(* C15: every failing request to Authorize, Logout or the gate ends in     *)
(* exactly one handler invocation by the operation: Authorize and Logout   *)
(* invoke the error handler once and never the not-authorized handler,     *)
(* the gate invokes the not-authorized handler once (the default one       *)
(* answers through the error handler, once); one response is written, and  *)
(* a failing request neither redirects nor reaches the downstream handler. *)
(* A request that does not fail invokes no handler.                        *)
C15_Failed ==
    \/ last.op = "Authorize"
          /\ (~Validates(last.req) \/ last.chk.err # nil \/ last.gf \/ last.sf)
    \/ last.op = "Logout" /\ (last.gf \/ last.sf)
    \/ last.op = "Authenticate" /\ last.err # nil

C15_OneHandlerPerFailure ==
    last.op \in {"Authorize", "Logout", "Authenticate"} =>
        IF C15_Failed
        THEN /\ Len(last.x.eh) = 1
             /\ last.x.nah = (IF last.op = "Authenticate" THEN 1 ELSE 0)
             /\ last.x.status = last.x.eh[1].code
             /\ last.x.status \in {StatusBadRequest, StatusUnauthorized,
                                   StatusInternalServerError}
             /\ last.x.body = <<last.x.eh[1].err, "\n">>
             /\ last.x.location = ""
             /\ last.x.next = 0
             /\ last.x.setCookie = NoCookie
        ELSE /\ last.x.eh = <<>>
             /\ last.x.nah = 0
             /\ last.x.status \in {StatusSeeOther, StatusOK}

(* a Logout whose Save fails *)
C15_Witness ==
    /\ last.op = "Logout"
    /\ last.sf
    /\ last.x.saves = 1
    /\ Len(last.x.eh) = 1
    /\ last.x.status = StatusInternalServerError

-----------------------------------------------------------------------------
(* C16: when the store's Get fails, AuthenticateRequest returns no         *)
(* identity and the store's error itself, never ErrNotAuthorized, whatever *)
(* the session holds; when the store loads the session, each of the four   *)
(* causes of rejection (a new session, no identity, no expiry or one that  *)
(* is not a time, an expiry that has passed) returns ErrNotAuthorized.     *)
C16_Rejectable ==
    \/ Shown = NoCookie
    \/ ~Has(Shown.Values, userKey)
    \/ ~Has(Shown.Values, userTimeout)
    \/ ~IsTime(Shown.Values[userTimeout])
    \/ now > Expiry(Shown)

C16_StoreErrorVerbatim ==
    last.op = "Authenticate" =>
        /\ last.gf => (last.err = ErrStore /\ last.user = NoUser)
        /\ (~last.gf /\ C16_Rejectable)
              => (last.err = ErrNotAuthorized /\ last.user = NoUser)
        /\ last.err = ErrNotAuthorized => (~last.gf /\ C16_Rejectable)
        /\ last.x.gets = 1

(* the store fails on a request whose session would have authenticated *)
C16_Witness ==
    /\ last.op = "Authenticate"
    /\ last.gf
    /\ last.err = ErrStore
    /\ HoldsIdentity(Shown)
    /\ now < Expiry(Shown)

-----------------------------------------------------------------------------
(* C17: SaveUserSession leaves the client's session as a successful        *)
(* Authorize at the same time, on the same cookie, with that identity      *)
(* returned by Check does: the identity under the identity key and now +   *)
(* lifetime under the expiry key, without calling the Verifier.  When      *)
(* loading the session or Save fails it returns that error and leaves the  *)
(* session as it was.  It never invokes a handler, redirects or writes a   *)
(* status.                                                                 *)
C17_SaveUserSessionStep ==
    last'.op = "SaveUserSession" =>
        LET sent == Presented(last'.client, last'.slot)
            a == Authorize(NewExchange, sent, Login, [id |-> last'.user, err |-> nil],
                           now', last'.gf, last'.sf)
            x == last'.x
        IN /\ x.check = 0
           /\ x.eh = <<>>
           /\ x.nah = 0
           /\ x.next = 0
           /\ x.location = ""
           /\ x.status = 0
           /\ x.body = <<>>
           /\ x.setCookie = a.setCookie
           /\ jar' = Receive(last'.client, a)
           /\ (last'.err = nil) = (a.status = StatusSeeOther)
           /\ IF last'.gf \/ last'.sf
              THEN /\ last'.err = ErrStore
                   /\ x.setCookie = NoCookie
                   /\ jar' = jar
              ELSE /\ last'.err = nil
                   /\ HoldsIdentity(x.setCookie)
                   /\ x.setCookie.Values[userKey] = last'.user
                   /\ Expiry(x.setCookie) = now' + ah.lifetime
                   /\ jar'[last'.client] = x.setCookie

C17_SaveUserSessionAsLogin == [][C17_SaveUserSessionStep]_vars

(* SaveUserSession on top of an earlier session *)
C17_Witness ==
    /\ last.op = "SaveUserSession"
    /\ last.slot = "jar"
    /\ last.err = nil
    /\ last.user = 42
    /\ last.x.saves = 1
    /\ IsLoginCookie(jar[last.client])
    /\ jar[last.client].Values[userKey] = 42
    /\ Expiry(jar[last.client]) = now + ah.lifetime

-----------------------------------------------------------------------------
(* C18: NewHandler fails atomically.  If an option returns an error or no  *)
(* store was set it returns a nil Handler and an error, otherwise a        *)
(* Handler and no error.  The options run in the order given; the first    *)
(* one that fails ends the construction with its error: no later option    *)
(* runs, the store is not checked and no default is applied.               *)
C18_Failing == {i \in 1 .. Len(ctor.given) : OptionFails(ctor.given[i])}

C18_FirstFailing ==
    IF C18_Failing = {} THEN 0
    ELSE CHOOSE i \in C18_Failing : \A j \in C18_Failing : i <= j

C18_StoreSet == \E i \in 1 .. Len(ctor.given) : ctor.given[i].kind = "SetStore"

C18_FailsAtomically ==
    /\ ctor.pc = "options" => (ctor.res = NilHandler /\ ah = ZeroHandler)
    /\ ctor.pc = "returned" =>
          LET k == C18_FirstFailing
              n == Len(ctor.given)
          IN /\ (k # 0 \/ ~C18_StoreSet)
                   => (ctor.res = NilHandler /\ ctor.err # nil /\ ah = ZeroHandler)
             /\ (k = 0 /\ C18_StoreSet)
                   => (ctor.res # NilHandler /\ ctor.err = nil /\ ah = ctor.res)
             /\ k # 0 => /\ ctor.applied = k - 1
                         /\ ctor.trace = [i \in 1 .. k |-> "option"]
                         /\ ctor.err = ErrNilHandler
             /\ k = 0 => /\ ctor.applied = n
                         /\ SubSeq(ctor.trace, 1, n + 1)
                               = [i \in 1 .. n + 1 |-> IF i <= n THEN "option" ELSE "store"]
                         /\ ~C18_StoreSet => (ctor.err = ErrNoStore /\ Len(ctor.trace) = n + 1)

(* an option fails after the store was set and before another option *)
C18_Witness ==
    /\ ctor.pc = "returned"
    /\ Len(ctor.given) = 3
    /\ ctor.given[1].kind = "SetStore"
    /\ C18_FirstFailing = 2
    /\ ctor.given[3].kind = "SetLifetime"
    /\ ctor.res = NilHandler
    /\ ctor.err = ErrNilHandler

-----------------------------------------------------------------------------
(* C19: after the options ran, NewHandler fills the fields left unset,     *)
(* and only those, with the defaults, in the order lifetime (5 minutes),   *)
(* landing path ("/"), logout path (the landing path in effect), session   *)
(* name ("AuthSession"), error handler, not-authorized handler; a value    *)
(* set by an option is kept.  A field is unset when it holds its zero      *)
(* value: the last option of a kind decides, and a zero duration or an     *)
(* empty string given by it leaves the field to the default.               *)
C19_Last(kind) ==
    {i \in 1 .. Len(ctor.given) :
        /\ ctor.given[i].kind = kind
        /\ \A j \in (i + 1) .. Len(ctor.given) : ctor.given[j].kind # kind}

C19_String(kind, default) ==
    IF \E i \in C19_Last(kind) : ctor.given[i].s # ""
    THEN ctor.given[CHOOSE i \in C19_Last(kind) : TRUE].s
    ELSE default

C19_Lifetime ==
    IF \E i \in C19_Last("SetLifetime") : ctor.given[i].n # 0
    THEN ctor.given[CHOOSE i \in C19_Last("SetLifetime") : TRUE].n
    ELSE DefaultLifetime

C19_DefaultsFillUnset ==
    (ctor.pc = "returned" /\ ctor.err = nil) =>
        /\ ctor.res.store
        /\ ctor.res.lifetime = C19_Lifetime
        /\ ctor.res.redirLanding = C19_String("SetLanding", "/")
        /\ ctor.res.redirLogout = C19_String("SetLogout", ctor.res.redirLanding)
        /\ ctor.res.sessionName = C19_String("SetSessionName", defaultSessionName)
        /\ ctor.res.errorHandler = C19_String("SetErrorHandler", DefaultErrorHandler)
        /\ ctor.res.notAuthorizedHandler
              = C19_String("SetNotAuthorizedHandler", DefaultNotAuthorizedHandler)
        /\ Len(ctor.trace) = Len(ctor.given) + 2
        /\ ctor.trace[Len(ctor.trace)] = "defaults"

(* a landing path and an error handler set, the rest left to the defaults *)
C19_Witness ==
    /\ ctor.pc = "returned"
    /\ ctor.err = nil
    /\ C19_Last("SetLanding") # {}
    /\ C19_Last("SetErrorHandler") # {}
    /\ ah.redirLanding = "/landingRedir"
    /\ ah.redirLogout = "/landingRedir"
    /\ ah.lifetime = DefaultLifetime
    /\ ah.sessionName = defaultSessionName
    /\ ah.errorHandler = "custom"
    /\ ah.notAuthorizedHandler = DefaultNotAuthorizedHandler

-----------------------------------------------------------------------------
(* C20: under any interleaving of concurrent Authorize, Authenticate,      *)
(* AuthenticateRequest and Logout requests on one Handler, no step changes *)
(* the Handler's configuration, and a step of one client's request leaves  *)
(* the other client's request, its session cookie and what                 *)
(* AuthenticateRequest answers for that cookie at any time as they were.   *)
C20_Outcome(k, t) ==
    LET r == AuthenticateRequest(NewExchange, k, t, FALSE)
    IN <<r.user, r.err>>

C20_IsolatedStep ==
    /\ ah' = ah
    /\ \A c \in Clients :
          /\ flight'[c] # flight[c] =>
                \A d \in Clients \ {c} :
                    /\ flight'[d] = flight[d]
                    /\ jar'[d] = jar[d]
                    /\ \A t \in 0 .. MaxTime : C20_Outcome(jar'[d], t) = C20_Outcome(jar[d], t)
          /\ jar'[c] # jar[c] => (flight[c] \in {"Authorize", "Logout"} /\ flight'[c] = "none")

-----------------------------------------------------------------------------
(* Vocabulary of the Millisecs properties *)

(* the integer part of the number a text denotes, as [k, off] *)
IntegerPart(txt) ==
    [k |-> txt.k,
     off |-> IF txt.k = 0 /\ txt.off < 0 /\ txt.q > 0 THEN txt.off + 1 ELSE txt.off]

(* t is the instant i milliseconds after the Unix epoch *)
IsInstant(t, i) ==
    /\ t.k = i.k
    /\ t.nsec \in 0 .. (NanoPerSec - 1)
    /\ t.nsec % NanoPerMilli = 0
    /\ t.sec * MilliPerSec + t.nsec \div NanoPerMilli = i.k * BaseMillis + i.off

DecimalText(i) == [valid |-> TRUE, k |-> i.k, off |-> i.off, q |-> 0]

(* C21: for every integer millisecond timestamp m, unmarshalling the JSON  *)
(* number m gives the instant m milliseconds after the Unix epoch, and     *)
(* marshalling that value gives back the decimal text of m; a number with  *)
(* a fractional part is truncated to its integer part; a Millisecs built   *)
(* from s whole seconds marshals to s * 1000.                              *)
C21_RoundTrip ==
    /\ (ms.src = "json" /\ ms.op = "UnmarshalJSON" /\ ms.err = nil)
          => IsInstant(ms.t, IntegerPart(ms.in))
    /\ (ms.src = "json" /\ ms.op = "MarshalJSON")
          => ms.out = DecimalText(IntegerPart(ms.in))
    /\ (ms.src = "secs" /\ ms.op = "MarshalJSON")
          => ms.out = DecimalText([k |-> 0, off |-> ms.secs * MilliPerSec])

(* C21 for the numbers a float64 holds exactly: the integers up to 2^53    *)
(* and the small numbers with a fraction                                   *)
C21_Exact(txt) ==
    \/ txt.k = 0
    \/ txt.k = 1 /\ txt.q = 0 /\ txt.off <= 0

C21_RoundTripOfExact ==
    /\ (ms.src = "json" /\ ms.op = "UnmarshalJSON" /\ ms.err = nil /\ C21_Exact(ms.in))
          => IsInstant(ms.t, IntegerPart(ms.in))
    /\ (ms.src = "json" /\ ms.op = "MarshalJSON" /\ C21_Exact(ms.in))
          => ms.out = DecimalText(IntegerPart(ms.in))
    /\ (ms.src = "secs" /\ ms.op = "MarshalJSON")
          => ms.out = DecimalText([k |-> 0, off |-> ms.secs * MilliPerSec])

-----------------------------------------------------------------------------
(* C22: every cookie the Handler issues carries an expiry no later than    *)
(* its issue time + lifetime, and a response that is not a successful      *)
(* login (Authorize or SaveUserSession) never leaves the client with a     *)
(* cookie that authenticates at a time at which the cookie presented does  *)
(* not.                                                                    *)
C22_Issued == last.x.setCookie

C22_Authenticates(k, t) == AuthenticateRequest(NewExchange, k, t, FALSE).err = nil

C22_ExpiryWithinLifetime ==
    (last.op # "none" /\ C22_Issued # NoCookie)
        => /\ Has(C22_Issued.Values, userTimeout)
           /\ IsTime(C22_Issued.Values[userTimeout])
           /\ Expiry(C22_Issued) <= now + ah.lifetime
           /\ \A t \in 0 .. (MaxTime + MaxLifetime + 1) :
                 (t > now + ah.lifetime) => ~C22_Authenticates(C22_Issued, t)
           /\ last.op = "Logout" =>
                 \A t \in now .. (MaxTime + MaxLifetime + 1) : ~C22_Authenticates(C22_Issued, t)

-----------------------------------------------------------------------------
(* C23: the identity key and the expiry key are distinct, and a Logout     *)
(* that succeeds changes only the expiry and the max-age: every other      *)
(* value of the session, the identity included, is stored as it was        *)
(* presented (an identity is neither deleted nor added).  A session that   *)
(* held an identity is rejected from the Logout on, and only because its   *)
(* expiry has passed.                                                      *)
C23_LogoutStep ==
    (last'.op = "Logout" /\ last'.x.status = StatusSeeOther) =>
        LET sent == Presented(last'.client, last'.slot)
            new == last'.x.setCookie
        IN /\ userKey # userTimeout
           /\ DOMAIN new.Values = DOMAIN sent.Values \cup {userTimeout}
           /\ \A key \in DOMAIN sent.Values \ {userTimeout} :
                 new.Values[key] = sent.Values[key]
           /\ Has(new.Values, userKey) = Has(sent.Values, userKey)
           /\ new.MaxAge = MaxAgeDelete
           /\ Has(sent.Values, userKey) =>
                 /\ HoldsIdentity(new)
                 /\ new.Values[userKey] = sent.Values[userKey]
                 /\ \A t \in now' .. MaxTime :
                       /\ AuthenticateRequest(NewExchange, new, t, FALSE).err
                             = ErrNotAuthorized
                       /\ t > Expiry(new)

C23_LogoutKeepsIdentity == [][C23_LogoutStep]_vars

-----------------------------------------------------------------------------
(* C24: a successful login (Authorize or SaveUserSession) on a request     *)
(* carrying any earlier cookie, one issued by a Logout or one that has     *)
(* expired included, stores the new identity in place of the old one and   *)
(* now + lifetime as the expiry, and the cookie it issues authenticates    *)
(* as the new identity from then until that expiry, and not after it.      *)
C24_LoggedIn ==
    \/ last'.op = "Authorize" /\ last'.x.status = StatusSeeOther
    \/ last'.op = "SaveUserSession" /\ last'.err = nil

C24_ReloginStep ==
    C24_LoggedIn =>
        LET sent == Presented(last'.client, last'.slot)
            new == last'.x.setCookie
        IN /\ IsLoginCookie(new)
           /\ DOMAIN new.Values = DOMAIN sent.Values \cup {userKey, userTimeout}
           /\ new.Values[userKey] = last'.user
           /\ Expiry(new) = now' + ah.lifetime
           /\ jar'[last'.client] = new
           /\ \A t \in now' .. (MaxTime + MaxLifetime + 1) :
                 LET r == AuthenticateRequest(NewExchange, new, t, FALSE)
                 IN IF t <= now' + ah.lifetime
                    THEN r.user = last'.user /\ r.err = nil
                    ELSE r.user = NoUser /\ r.err = ErrNotAuthorized

C24_ReloginAuthenticates == [][C24_ReloginStep]_vars

(* logged in as 42 on top of the cookie of a Logout that ended a session   *)
(* of 23                                                                   *)
C24_Witness ==
    /\ last.op = "Authorize"
    /\ last.slot = "jar"
    /\ last.x.status = StatusSeeOther
    /\ last.user = 42
    /\ IsLoginCookie(preLogout)
    /\ preLogout.Values[userKey] = 23
    /\ now > Expiry(preLogout)
    /\ ah.lifetime = 1
    /\ IsLoginCookie(jar[last.client])
    /\ jar[last.client].Values[userKey] = 42
    /\ Expiry(jar[last.client]) = now + 1

-----------------------------------------------------------------------------
(* C25: a Logout on a request without a session succeeds with 303 to the   *)
(* logout path, and the cookie it issues holds an expiry and no identity   *)
(* and never authenticates; and no Logout turns an unauthenticated client  *)
(* into an authenticated one: if the cookie presented does not             *)
(* authenticate when the Logout is served, the cookie the client holds     *)
(* afterwards authenticates at no time from then on.                       *)
C25_Rejected(k, t) == AuthenticateRequest(NewExchange, k, t, FALSE).err = ErrNotAuthorized

C25_LogoutStep ==
    last'.op = "Logout" =>
        LET sent == Presented(last'.client, last'.slot)
            new == last'.x.setCookie
            later == now' .. (MaxTime + MaxLifetime + 1)
        IN /\ (sent = NoCookie /\ ~last'.gf /\ ~last'.sf) =>
                 /\ last'.x.status = StatusSeeOther
                 /\ last'.x.location = ah.redirLogout
                 /\ DOMAIN new.Values = {userTimeout}
                 /\ new.Values[userTimeout] = TimeValue(now' - ah.lifetime)
                 /\ ~Has(new.Values, userKey)
                 /\ \A t \in later : C25_Rejected(new, t)
           /\ (C25_Rejected(sent, now') /\ C25_Rejected(jar[last'.client], now')) =>
                 \A t \in later : C25_Rejected(jar'[last'.client], t)

C25_LogoutNeverAuthenticates == [][C25_LogoutStep]_vars

-----------------------------------------------------------------------------
(* C26: a render option that fails validation returns an error and leaves  *)
(* the Renderer as it was.  InjectTemplateFunc fails exactly when the name *)
(* is registered and keeps the function registered first, AddTemplates     *)
(* fails exactly when no file is passed and keeps the earlier list,        *)
(* SetLogger(nil) and SetErrorHandler(nil) fail and keep the earlier       *)
(* logger and error handler; no other option fails.  After any sequence    *)
(* of options each injector name maps to the function first registered     *)
(* under it.                                                               *)
C26_Invalid(o, r) ==
    \/ o.kind = "InjectTemplateFunc" /\ o.name \in DOMAIN r.tplFuncInjectors
    \/ o.kind = "AddTemplates" /\ o.files = <<>>
    \/ o.kind \in {"SetLogger", "SetErrorHandler"} /\ o.fn = ""

C26_OptionStep ==
    /\ (rend'.err # nil) = C26_Invalid(rend'.opt, rend.r)
    /\ rend'.err # nil => rend'.r = rend.r
    /\ \A n \in DOMAIN rend.r.tplFuncInjectors :
          /\ n \in DOMAIN rend'.r.tplFuncInjectors
          /\ rend'.r.tplFuncInjectors[n] = rend.r.tplFuncInjectors[n]
    /\ rend'.r.tplFuncInjectors = rend'.first

C26_FailingOptionKeepsRenderer == [][C26_OptionStep]_vars

(* "addr" is registered with f1, and an injection of f2 under it failed *)
C26_Witness ==
    /\ rend.opt.kind = "InjectTemplateFunc"
    /\ rend.opt.name = "addr"
    /\ rend.opt.fn = "f2"
    /\ rend.err = ErrNameTaken
    /\ "addr" \in DOMAIN rend.r.tplFuncInjectors
    /\ rend.r.tplFuncInjectors["addr"] = "f1"
    /\ rend.r.log = "g1"
    /\ rend.r.templateFiles = <<"a.tmpl">>

====
